---------------------------- MODULE Spec2Model ----------------------------
(***************************************************************************)
(* A model of the cefevent package: the header and extension escapers, the *)
(* severity validator, the extension encoder and Logger.Log.               *)
(*                                                                         *)
(* A Go string is modelled as a sequence of elements, each a TLA+ string.   *)
(* Every character the code inspects (backslash, '|', '=', white space, a  *)
(* digit, a sign) is an element of its own, so escaping, trimming, parsing *)
(* and formatting are computed character by character as the code computes *)
(* them; a run of ordinary letters (a key, "CEF:", a month name, a word of *)
(* a test) may be written as one element.  Flat gives the Go string itself,*)
(* and two Go strings are equal when their Flat images are.                *)
(***************************************************************************)
EXTENDS Integers, Sequences, FiniteSets, TLC

VARIABLES
    l,      \* the Logger: its configuration and device identity
    sink,   \* every Write call l.out has received: [p |-> bytes, err |-> error]
    call,   \* the most recent call of an operation, its inputs and its result
    arg     \* the input of the pure functions (escapers, validator, encoder)

vars == <<l, sink, call, arg>>

---------------------------------------------------------------------------
(* Bounds *)

MaxLen == 3         \* longest input string of the escapers
MaxSevLen == 3      \* longest free-form severity string of the validator
MaxWrites == 1      \* number of Write calls the sink records
MaxOpts == 2        \* longest list of options given to NewLogger
MaxLines == 2       \* number of Write calls of a sequence of Log calls
MaxFields == 2      \* number of fields set in an Extensions value, the tests' aside

---------------------------------------------------------------------------
(* Strings *)

RECURSIVE Flat(_)
Flat(s) == IF s = <<>> THEN "" ELSE Head(s) \o Flat(Tail(s))

RECURSIVE Concat(_)
Concat(ss) == IF ss = <<>> THEN <<>> ELSE Head(ss) \o Concat(Tail(ss))

RECURSIVE StrsUpTo(_, _)
StrsUpTo(alphabet, n) ==
    IF n = 0 THEN {<<>>}
    ELSE LET shorter == StrsUpTo(alphabet, n - 1)
         IN  shorter \cup {Append(s, c) : s \in shorter, c \in alphabet}

RECURSIVE Count(_, _)
Count(s, set) ==
    IF s = <<>> THEN 0
    ELSE (IF Head(s) \in set THEN 1 ELSE 0) + Count(Tail(s), set)

HasPrefix(s, p) == Len(s) >= Len(p) /\ SubSeq(s, 1, Len(p)) = p

Drop(s, n) == SubSeq(s, n + 1, Len(s))

\* the characters the escapers are exercised on
Alphabet == {"a", "|", "\\", "=", " ", "\n", "\r"}

---------------------------------------------------------------------------
(* Field Escaper *)

RECURSIVE escapeHeaderField_NoBackslash(_)
escapeHeaderField_NoBackslash(field) ==
    IF field = <<>> THEN <<>>
    ELSE (IF Head(field) = "|" THEN <<"\\", Head(field)>> ELSE <<Head(field)>>)
         \o escapeHeaderField_NoBackslash(Tail(field))

\* headerEscapeRegex ([|\\]) matches one character at a time, left to right;
\* the template \${1} replaces a match by a backslash and the matched character
RECURSIVE escapeHeaderField(_)
escapeHeaderField(field) ==
    IF field = <<>> THEN <<>>
    ELSE (IF Head(field) \in {"|", "\\"} THEN <<"\\", Head(field)>> ELSE <<Head(field)>>)
         \o escapeHeaderField(Tail(field))

RECURSIVE escapeExtensionField_NoEquals(_)
escapeExtensionField_NoEquals(f) ==
    IF f = <<>> THEN <<>>
    ELSE (CASE Head(f) = "\n" -> <<"\\", "n">>
            [] Head(f) = "\r" -> <<"\\", "r">>
            [] Head(f) = "\\" -> <<"\\", "\\">>
            [] OTHER -> <<Head(f)>>)
         \o escapeExtensionField_NoEquals(Tail(f))

\* for _, r := range []rune(f) { switch r { ... } }
RECURSIVE escapeExtensionField(_)
escapeExtensionField(f) ==
    IF f = <<>> THEN <<>>
    ELSE (CASE Head(f) = "\n" -> <<"\\", "n">>
            [] Head(f) = "\r" -> <<"\\", "r">>
            [] Head(f) = "=" -> <<"\\", "=">>
            [] Head(f) = "\\" -> <<"\\", "\\">>
            [] OTHER -> <<Head(f)>>)
         \o escapeExtensionField(Tail(f))

---------------------------------------------------------------------------
(* Errors: an error is the chain of its messages, outermost first; the    *)
(* last elements of the chain are the errors it wraps.  nil is <<>>.      *)

Nil == <<>>

NewError(msg) == <<msg>>

\* fmt.Errorf(prefix + "%w", err)
Errorf(prefix, err) == <<prefix \o err[1]>> \o err

\* errors.Is(err, target): target is err or one of the errors err wraps
ErrorsIs(err, target) ==
    /\ target # Nil
    /\ Len(err) >= Len(target)
    /\ SubSeq(err, Len(err) - Len(target) + 1, Len(err)) = target

InvalidSeverityError == NewError("invalid severity")
InvalidCefVersionErr == NewError("invalid cef version")

---------------------------------------------------------------------------
(* Severity Validator *)

UnknownSeverity == <<"Unknown">>
LowSeverity == <<"Low">>
MediumSeverity == <<"Medium">>
HighSeverity == <<"High">>
VeryHighSeverity == <<"Very-High">>

SeverityKeywords ==
    {Flat(k) : k \in {UnknownSeverity, LowSeverity, MediumSeverity, HighSeverity,
                      VeryHighSeverity}}

Digits == <<"0", "1", "2", "3", "4", "5", "6", "7", "8", "9">>

IsDigit(c) == \E d \in 1..10 : Digits[d] = c

DigitVal(c) == (CHOOSE d \in 1..10 : Digits[d] = c) - 1

\* strconv.Atoi: an optional sign, then one or more decimal digits
\* (the strings of the model are far too short to overflow an int)
Atoi(s) ==
    LET signed == s # <<>> /\ Head(s) \in {"+", "-"}
        body == IF signed THEN Tail(s) ELSE s
        RECURSIVE Acc(_, _)
        Acc(n, rest) == IF rest = <<>> THEN n
                        ELSE Acc(n * 10 + DigitVal(Head(rest)), Tail(rest))
    IN  IF body = <<>> \/ \E i \in 1..Len(body) : ~IsDigit(body[i])
        THEN [err |-> NewError("invalid syntax"), v |-> 0]
        ELSE [err |-> Nil,
              v |-> IF signed /\ Head(s) = "-" THEN 0 - Acc(0, body) ELSE Acc(0, body)]

validateSeverity_OffByOne(sev) ==
    IF Flat(sev) \in SeverityKeywords
    THEN Nil
    ELSE LET r == Atoi(sev)
         IN  IF r.err # Nil THEN InvalidSeverityError
             ELSE IF r.v >= 10 \/ r.v < 0 THEN InvalidSeverityError
             ELSE Nil

validateSeverity(sev) ==
    IF Flat(sev) \in SeverityKeywords
    THEN Nil
    ELSE LET r == Atoi(sev)
         IN  IF r.err # Nil THEN InvalidSeverityError
             ELSE IF r.v > 10 \/ r.v < 0 THEN InvalidSeverityError
             ELSE Nil

---------------------------------------------------------------------------
(* Number formatting *)

\* strconv.FormatInt / FormatUint in base 10 (and %d) of a number >= 0
RECURSIVE Itoa(_)
Itoa(n) == IF n < 10 THEN <<Digits[n + 1]>>
           ELSE Itoa(n \div 10) \o <<Digits[(n % 10) + 1]>>

HexDigits == <<"0", "1", "2", "3", "4", "5", "6", "7", "8", "9",
               "a", "b", "c", "d", "e", "f">>

\* the two lower-case hex digits of a byte
HexByte(b) == <<HexDigits[(b \div 16) + 1], HexDigits[(b % 16) + 1]>>

\* two decimal digits, zero padded (the 15, 04 and 05 of a time layout)
TwoDigits(n) == <<Digits[(n \div 10) + 1], Digits[(n % 10) + 1]>>

RECURSIVE Join(_, _)
Join(ss, sep) ==
    IF ss = <<>> THEN <<>>
    ELSE IF Len(ss) = 1 THEN ss[1]
    ELSE ss[1] \o sep \o Join(Tail(ss), sep)

---------------------------------------------------------------------------
(* Extension Encoder *)

(* An Extensions value is a record holding the fields that were set; a    *)
(* field that is missing from the record has the zero value of its type.  *)
(*   string   a Go string                                                 *)
(*   count    int (BaseEventCount)                                        *)
(*   type     byte (Type)                                                 *)
(*   uint     *uint, *uint8: <<>> is nil, <<n>> points to n               *)
(*   time     time.Time: [zero |-> TRUE, ...] is the zero time, otherwise *)
(*            sec seconds and ms milliseconds since the Unix epoch        *)
(*   ip, ipEsc   net.IP, a sequence of bytes (empty when unset)           *)
(*   mac      net.HardwareAddr, a sequence of bytes                       *)
(*   url      url.URL, a record of its fields Scheme, Host, Path, RawQuery  *)
(*   tz       *time.Location: <<>> is nil, <<name>> the location called   *)
(*            name                                                        *)

ZeroTime == [zero |-> TRUE, sec |-> 0, ms |-> 0]

\* url.URL{}
ZeroURL == [Scheme |-> <<>>, Host |-> <<>>, Path |-> <<>>, RawQuery |-> <<>>]

ZeroValue(kind) ==
    CASE kind \in {"count", "type"} -> 0
      [] kind = "time" -> ZeroTime
      [] kind = "url" -> ZeroURL
      [] OTHER -> <<>>

FieldOf(e, d) == IF d.field \in DOMAIN e THEN e[d.field] ELSE ZeroValue(d.kind)

\* url.URL.String of a URL without user, opaque part or fragment, whose path
\* needs no percent-encoding
URLString(u) ==
    (IF u.Scheme # <<>> THEN u.Scheme \o <<":">> ELSE <<>>)
    \o (IF (u.Scheme # <<>> \/ u.Host # <<>>) /\ (u.Host # <<>> \/ u.Path # <<>>)
        THEN <<"//">> \o u.Host ELSE <<>>)
    \o (IF u.Path # <<>> /\ u.Path[1] # "/" /\ u.Host # <<>> THEN <<"/">> ELSE <<>>)
    \o u.Path
    \o (IF u.RawQuery # <<>> THEN <<"?">> \o u.RawQuery ELSE <<>>)

\* a number in lower-case hexadecimal without leading zeros
RECURSIVE Hex(_)
Hex(n) == IF n < 16 THEN <<HexDigits[n + 1]>>
          ELSE Hex(n \div 16) \o <<HexDigits[(n % 16) + 1]>>

\* the eight 16-bit groups of a 16-byte address
Groups(ip) == [i \in 1..8 |-> ip[2 * i - 1] * 256 + ip[2 * i]]

\* the number of zero groups that start at place i
RECURSIVE ZeroRun(_, _)
ZeroRun(g, i) == IF i <= Len(g) /\ g[i] = 0 THEN 1 + ZeroRun(g, i + 1) ELSE 0

\* the text of a 16-byte address that is not an IPv4 address: the first of the
\* longest runs of two or more zero groups is written "::"
IPv6String(ip) ==
    LET g == Groups(ip)
        longest == CHOOSE n \in 0..8 :
                       /\ \E i \in 1..8 : ZeroRun(g, i) = n
                       /\ \A i \in 1..8 : ZeroRun(g, i) <= n
        text(from, to) == Join([i \in 1..(to - from + 1) |-> Hex(g[from + i - 1])], <<":">>)
    IN  IF longest < 2 THEN text(1, 8)
        ELSE LET e0 == CHOOSE i \in 1..8 :
                           /\ ZeroRun(g, i) = longest
                           /\ \A j \in 1..(i - 1) : ZeroRun(g, j) < longest
             IN  text(1, e0 - 1) \o <<":", ":">> \o text(e0 + longest, 8)

\* ip.To4() gives an address: 4 bytes, or 16 bytes with the IPv4-in-IPv6 prefix
IsV4InV6(ip) ==
    /\ Len(ip) = 16
    /\ \A i \in 1..10 : ip[i] = 0
    /\ ip[11] = 255 /\ ip[12] = 255

IPString_UnspecifiedIsNil(ip) ==
    IF \A i \in DOMAIN ip : ip[i] = 0 THEN <<"<nil>">>
    ELSE IF Len(ip) = 4
    THEN Join([i \in 1..4 |-> Itoa(ip[i])], <<".">>)
    ELSE <<"?">> \o Concat([i \in 1..Len(ip) |-> HexByte(ip[i])])

\* net.IP.String
IPString(ip) ==
    IF Len(ip) = 0 THEN <<"<nil>">>
    ELSE IF Len(ip) = 4
    THEN Join([i \in 1..4 |-> Itoa(ip[i])], <<".">>)
    ELSE IF IsV4InV6(ip)
    THEN Join([i \in 1..4 |-> Itoa(ip[12 + i])], <<".">>)
    ELSE IF Len(ip) = 16
    THEN IPv6String(ip)
    ELSE <<"?">> \o Concat([i \in 1..Len(ip) |-> HexByte(ip[i])])

\* net.HardwareAddr.String
MACString(mac) == Join([i \in 1..Len(mac) |-> HexByte(mac[i])], <<":">>)

UnixMilliString_Seconds(t) == Itoa(t.sec)

\* strconv.FormatInt(t.UnixMilli(), 10) of a time at or after the epoch
UnixMilliString(t) ==
    IF t.sec = 0 THEN Itoa(t.ms)
    ELSE Itoa(t.sec) \o <<Digits[(t.ms \div 100) + 1]>> \o TwoDigits(t.ms % 100)

\* the fields Extensions.String writes itself, in the order of its if statements
StringFields ==
    << [field |-> "Message", key |-> "msg", kind |-> "string"],
       [field |-> "DeviceAction", key |-> "act", kind |-> "string"],
       [field |-> "ApplicationProtocol", key |-> "app", kind |-> "string"],
       [field |-> "BaseEventCount", key |-> "cnt", kind |-> "count"],
       [field |-> "EndTime", key |-> "end", kind |-> "time"],
       [field |-> "ExternalId", key |-> "externalId", kind |-> "string"],
       [field |-> "Type", key |-> "type", kind |-> "type"],
       [field |-> "BytesIn", key |-> "in", kind |-> "uint"],
       [field |-> "BytesOut", key |-> "out", kind |-> "uint"],
       [field |-> "Outcome", key |-> "outcome", kind |-> "string"],
       [field |-> "TransportProtocol", key |-> "proto", kind |-> "string"],
       [field |-> "Reason", key |-> "reason", kind |-> "string"] >>

\* marshalDestinationFields
DestinationFields ==
    << [field |-> "DestinationDnsDomain", key |-> "destinationDnsDomain", kind |-> "string"],
       [field |-> "DestinationServiceName", key |-> "destinationServiceName", kind |-> "string"],
       [field |-> "DestinationTranslatedAddress", key |-> "destinationTranslatedAddress", kind |-> "ipEsc"],
       [field |-> "DestinationTranslatedPort", key |-> "destinationTranslatedPort", kind |-> "uint"],
       [field |-> "DestinationHostName", key |-> "dhost", kind |-> "string"],
       [field |-> "DestinationMacAddress", key |-> "dmac", kind |-> "mac"],
       [field |-> "DestinationNtDomain", key |-> "dntdom", kind |-> "string"],
       [field |-> "DestinationProcessId", key |-> "dpid", kind |-> "uint"],
       [field |-> "DestinationUserPrivileges", key |-> "dpriv", kind |-> "string"],
       [field |-> "DestinationProcessName", key |-> "dproc", kind |-> "string"],
       [field |-> "DestinationPort", key |-> "dpt", kind |-> "uint"],
       [field |-> "DestinationAddress", key |-> "dst", kind |-> "ip"],
       [field |-> "DestinationUserId", key |-> "duid", kind |-> "string"] >>

\* marshalDeviceFields
DeviceFields ==
    << [field |-> "DeviceDirection", key |-> "deviceDirection", kind |-> "uint"],
       [field |-> "DeviceDnsDomain", key |-> "deviceDnsDomain", kind |-> "string"],
       [field |-> "DeviceExternalId", key |-> "deviceExternalId", kind |-> "string"],
       [field |-> "DeviceFacility", key |-> "deviceFacility", kind |-> "string"],
       [field |-> "DeviceInboundInterface", key |-> "deviceInboundInterface", kind |-> "string"],
       [field |-> "DeviceNtDomain", key |-> "deviceNtInterface", kind |-> "string"],
       [field |-> "DeviceOutboundInterface", key |-> "deviceOutboundInterface", kind |-> "string"],
       [field |-> "DevicePayloadId", key |-> "devicePayloadId", kind |-> "string"],
       [field |-> "DeviceProcessName", key |-> "deviceProcessName", kind |-> "string"],
       [field |-> "DeviceTimeZone", key |-> "dtz", kind |-> "tz"],
       [field |-> "DeviceAddress", key |-> "dvc", kind |-> "ip"],
       [field |-> "DeviceHostName", key |-> "dcvhost", kind |-> "string"],
       [field |-> "DeviceMacAddress", key |-> "dvcmac", kind |-> "mac"],
       [field |-> "DeviceProcessId", key |-> "dvcpid", kind |-> "uint"],
       [field |-> "DeviceReceiptTime", key |-> "rt", kind |-> "time"] >>

\* marshalFileFields
FileFields ==
    << [field |-> "FileCreateTime", key |-> "fileCreateTime", kind |-> "time"],
       [field |-> "FileHash", key |-> "fileHash", kind |-> "string"],
       [field |-> "FileId", key |-> "fileId", kind |-> "string"],
       [field |-> "FileModificationTime", key |-> "fileModificationTime", kind |-> "time"],
       [field |-> "FilePath", key |-> "filePath", kind |-> "string"],
       [field |-> "FilePermission", key |-> "filePermission", kind |-> "string"],
       [field |-> "FileType", key |-> "fileType", kind |-> "string"],
       [field |-> "FileName", key |-> "fname", kind |-> "string"],
       [field |-> "FileSize", key |-> "fsize", kind |-> "uint"],
       [field |-> "OldFileCreateTime", key |-> "oldFileCreateTime", kind |-> "time"],
       [field |-> "OldFileHash", key |-> "oldFileHash", kind |-> "string"],
       [field |-> "OldFileId", key |-> "oldFileId", kind |-> "string"],
       [field |-> "OldFileModificationTime", key |-> "oldFileModificationTime", kind |-> "time"],
       [field |-> "OldFileName", key |-> "oldFileName", kind |-> "string"],
       [field |-> "OldFilePath", key |-> "oldFilePath", kind |-> "string"],
       [field |-> "OldFilePermission", key |-> "oldFilePermission", kind |-> "string"],
       [field |-> "OldFileType", key |-> "oldFileType", kind |-> "string"],
       [field |-> "OldFileSize", key |-> "oldFileSize", kind |-> "uint"] >>

\* marshalHttpFields
HttpFields ==
    << [field |-> "RequestUrl", key |-> "request", kind |-> "url"],
       [field |-> "RequestClientApplication", key |-> "requestClientApplication", kind |-> "string"],
       [field |-> "RequestContext", key |-> "requestContext", kind |-> "string"],
       [field |-> "RequestCookies", key |-> "requestCookies", kind |-> "string"],
       [field |-> "RequestMethod", key |-> "requestMethod", kind |-> "string"] >>

\* the fields of the struct Extensions that no marshalling function reads: the
\* code gives them no key
SourceFields ==
    << [field |-> "SourceHostName", kind |-> "string"],
       [field |-> "SourceMacAddress", kind |-> "mac"],
       [field |-> "SourceNtDomain", kind |-> "string"],
       [field |-> "SourceDnsDomain", kind |-> "string"],
       [field |-> "SourceServiceName", kind |-> "string"],
       [field |-> "SourceTranslatedAddress", kind |-> "ip"],
       [field |-> "SourceTranslatedPort", kind |-> "uint"],
       [field |-> "SourceProcessId", kind |-> "uint"] >>

DeviceTranslatedAddress == [field |-> "DeviceTranslatedAddress", kind |-> "ip"]

\* the condition of the if statement that guards a field
Present(d, v) ==
    CASE d.kind = "string" -> v # <<>>
      [] d.kind = "count" -> v > 1
      [] d.kind = "type" -> v # 0
      [] d.kind = "time" -> ~v.zero
      [] d.kind \in {"uint", "tz"} -> v # <<>>
      [] d.kind = "url" -> ZeroURL # v
      [] d.kind \in {"ip", "ipEsc"} -> Flat(IPString(v)) # "<nil>"
      [] d.kind = "mac" -> Len(v) # 0

\* the text written after "key="
ValueText(d, v) ==
    CASE d.kind = "string" -> escapeExtensionField(v)
      [] d.kind = "url" -> escapeExtensionField(URLString(v))
      [] d.kind \in {"count", "type"} -> Itoa(v)
      [] d.kind = "time" -> UnixMilliString(v)
      [] d.kind = "uint" -> Itoa(v[1])
      [] d.kind = "tz" -> escapeExtensionField(v[1])
      [] d.kind = "ipEsc" -> escapeExtensionField(IPString(v))
      [] d.kind = "ip" -> IPString(v)
      [] d.kind = "mac" -> MACString(v)

\* if <present> { b.WriteString("key=" + <text> + " ") }
WriteField(e, d) ==
    IF Present(d, FieldOf(e, d))
    THEN <<d.key, "=">> \o ValueText(d, FieldOf(e, d)) \o <<" ">>
    ELSE <<>>

\* the if statements of a marshalling function, run in the order they are written
RECURSIVE marshalFrom(_, _, _)
marshalFrom(e, table, i) ==
    IF i > Len(table) THEN <<>>
    ELSE WriteField(e, table[i]) \o marshalFrom(e, table, i + 1)

marshalFields(e, table) == marshalFrom(e, table, 1)

marshalDestinationFields(e) == marshalFields(e, DestinationFields)

marshalDeviceFields(e) == marshalFields(e, DeviceFields)

marshalFileFields(e) == marshalFields(e, FileFields)

\* defined, and called by nothing
marshalHttpFields(e) == marshalFields(e, HttpFields)

\* b := strings.Builder{}; return b.String()
marshalSourceFields(e) == <<>>

\* the map e.CustomExtensions: a function from keys to values
CustomOf(e) == IF "CustomExtensions" \in DOMAIN e THEN e.CustomExtensions ELSE <<>>

\* Go ranges over a map in an unspecified order: every enumeration of its keys
KeyOrders(e) ==
    LET keys == DOMAIN CustomOf(e)
    IN  {o \in [1..Cardinality(keys) -> keys] : \A k \in keys : \E i \in DOMAIN o : o[i] = k}

unicodeIsSpace(c) == c \in {" ", "\t", "\n", "\r", "\f"}

\* strings.TrimSpace
RECURSIVE TrimLeft(_)
TrimLeft(s) == IF s # <<>> /\ unicodeIsSpace(Head(s)) THEN TrimLeft(Tail(s)) ELSE s

RECURSIVE TrimRight(_)
TrimRight(s) ==
    IF s # <<>> /\ unicodeIsSpace(s[Len(s)]) THEN TrimRight(SubSeq(s, 1, Len(s) - 1)) ELSE s

TrimSpace_Off(s) == s

TrimSpace(s) == TrimRight(TrimLeft(s))

ExtensionsString_DeviceFirst(e, order) ==
    LET custom == CustomOf(e)
        b == marshalFields(e, StringFields)
             \o marshalDeviceFields(e)
             \o marshalDestinationFields(e)
             \o marshalFileFields(e)
             \o Concat([i \in 1..Len(order) |->
                    escapeExtensionField(order[i]) \o <<"=">>
                    \o escapeExtensionField(custom[order[i]]) \o <<" ">>])
    IN  TrimSpace(b)

\* Extensions.String, with the order in which the range statement visits the map
ExtensionsString(e, order) ==
    LET custom == CustomOf(e)
        b == marshalFields(e, StringFields)
             \o marshalDestinationFields(e)
             \o marshalDeviceFields(e)
             \o marshalFileFields(e)
             \o Concat([i \in 1..Len(order) |->
                    escapeExtensionField(order[i]) \o <<"=">>
                    \o escapeExtensionField(custom[order[i]]) \o <<" ">>])
    IN  TrimSpace(b)

---------------------------------------------------------------------------
(* Logger: the version of the logger that holds the hostname source in the *)
(* field getHostname and formats the stamp with the layout `Jan 2 15:04:05`*)

\* a LoggerConfigOption is the function WithCefVersion or OmitSyslogHeader returns
WithCefVersion_AcceptsTwo(ver) ==
    IF ver > 2
    THEN [fn |-> [opt |-> "nil", ver |-> 0], err |-> InvalidCefVersionErr]
    ELSE [fn |-> [opt |-> "cefVersion", ver |-> ver], err |-> Nil]

WithCefVersion(ver) ==
    IF ver # 0 /\ ver # 1
    THEN [fn |-> [opt |-> "nil", ver |-> 0], err |-> InvalidCefVersionErr]
    ELSE [fn |-> [opt |-> "cefVersion", ver |-> ver], err |-> Nil]

OmitSyslogHeader == [opt |-> "omitSyslogHeader", ver |-> 0]

\* fn(l)
ApplyOption(fn, lg) ==
    CASE fn.opt = "cefVersion" -> [lg EXCEPT !.cefVersion = fn.ver]
      [] fn.opt = "omitSyslogHeader" -> [lg EXCEPT !.addSyslogHeader = FALSE]

RECURSIVE ApplyOptions_Reversed(_, _)
ApplyOptions_Reversed(fns, lg) ==
    IF fns = <<>> THEN lg
    ELSE ApplyOption(Head(fns), ApplyOptions_Reversed(Tail(fns), lg))

\* for _, fn := range fns { fn(l) }
RECURSIVE ApplyOptions(_, _)
ApplyOptions(fns, lg) ==
    IF fns = <<>> THEN lg ELSE ApplyOptions(Tail(fns), ApplyOption(Head(fns), lg))

\* out, getTime and getHostname are references: the sink the caller passed and
\* the functions time.Now and os.Hostname
NewLogger(deviceVendor, deviceProduct, deviceVersion, fns) ==
    ApplyOptions(fns, [addSyslogHeader |-> TRUE,
                       cefVersion |-> 1,
                       out |-> "out",
                       getTime |-> "time.Now",
                       getHostname |-> "os.Hostname",
                       DeviceVendor |-> deviceVendor,
                       DeviceProduct |-> deviceProduct,
                       DeviceVersion |-> deviceVersion])

Months == <<"Jan", "Feb", "Mar", "Apr", "May", "Jun",
            "Jul", "Aug", "Sep", "Oct", "Nov", "Dec">>

\* the layout time.Stamp, "Jan _2 15:04:05": the day padded with a space
FormatStamp_Padded(t) ==
    <<Months[t.month], " ">> \o (IF t.day < 10 THEN <<" ">> ELSE <<>>) \o Itoa(t.day)
    \o <<" ">> \o TwoDigits(t.hour) \o <<":">> \o TwoDigits(t.min) \o <<":">> \o TwoDigits(t.sec)

\* l.getTime().Format(`Jan 2 15:04:05`)
FormatStamp(t) ==
    <<Months[t.month], " ">> \o Itoa(t.day)
    \o <<" ">> \o TwoDigits(t.hour) \o <<":">> \o TwoDigits(t.min) \o <<":">> \o TwoDigits(t.sec)

\* b.WriteString(stamp); b.WriteString(" " + hostname + " ")
Envelope(t, hostname) == FormatStamp(t) \o <<" ">> \o hostname \o <<" ">>

CefHeader_SkipEmpty(lg, deviceEventClassId, name, severity) ==
    LET Slot(f) == IF f = <<>> THEN <<>> ELSE escapeHeaderField(f) \o <<"|">>
    IN  <<"CEF:">> \o Itoa(lg.cefVersion) \o <<"|">>
        \o Slot(lg.DeviceVendor) \o Slot(lg.DeviceProduct) \o Slot(lg.DeviceVersion)
        \o Slot(deviceEventClassId) \o Slot(name) \o Slot(severity)

\* fmt.Sprintf("CEF:%d|%s|%s|%s|%s|%s|%s|", ...)
CefHeader(lg, deviceEventClassId, name, severity) ==
    <<"CEF:">> \o Itoa(lg.cefVersion) \o <<"|">>
    \o escapeHeaderField(lg.DeviceVendor) \o <<"|">>
    \o escapeHeaderField(lg.DeviceProduct) \o <<"|">>
    \o escapeHeaderField(lg.DeviceVersion) \o <<"|">>
    \o escapeHeaderField(deviceEventClassId) \o <<"|">>
    \o escapeHeaderField(name) \o <<"|">>
    \o escapeHeaderField(severity) \o <<"|">>

HostnameError_Ignored(lg, host) == Nil

HostnameError_Unconditional(lg, host) ==
    IF host.err # Nil
    THEN Errorf("failed to get hostname: ", host.err)
    ELSE Nil

\* hostname, err := l.getHostname(); if err != nil { return fmt.Errorf(...) }
\* (the hostname source is only consulted when the envelope is enabled)
HostnameError(lg, host) ==
    IF lg.addSyslogHeader /\ host.err # Nil
    THEN Errorf("failed to get hostname: ", host.err)
    ELSE Nil

EnvelopeOf_LeadingSpace(lg, now, host) ==
    IF lg.addSyslogHeader THEN Envelope(now, host.name) ELSE <<" ">>

\* if l.addSyslogHeader { ... }
EnvelopeOf(lg, now, host) ==
    IF lg.addSyslogHeader THEN Envelope(now, host.name) ELSE <<>>

LogLine_Newline(lg, now, host, deviceEventClassId, name, severity, extString) ==
    EnvelopeOf(lg, now, host)
    \o CefHeader(lg, deviceEventClassId, name, severity)
    \o extString \o <<"\n">>

\* b.String() once the envelope, the header and extensions.String() are written
LogLine(lg, now, host, deviceEventClassId, name, severity, extString) ==
    EnvelopeOf(lg, now, host)
    \o CefHeader(lg, deviceEventClassId, name, severity)
    \o extString

WriteError_Unwrapped(werr) == werr

\* _, err := l.out.Write(...); if err != nil { return fmt.Errorf(...) }; return nil
WriteError(werr) ==
    IF werr # Nil THEN Errorf("failed to write log: ", werr) ELSE Nil

\* how often Log calls l.getTime and l.getHostname: once each inside
\* `if l.addSyslogHeader`, never outside it
SourceCalls(lg) ==
    IF lg.addSyslogHeader THEN [getTime |-> 1, getHostname |-> 1]
    ELSE [getTime |-> 0, getHostname |-> 0]

Log_SplitWrite(lg, deviceEventClassId, name, severity, extString, now, host, werr) ==
    LET herr == HostnameError(lg, host)
        head == EnvelopeOf(lg, now, host)
                \o CefHeader(lg, deviceEventClassId, name, severity)
    IN  IF herr # Nil
        THEN [ret |-> herr, written |-> <<>>, logger |-> lg, sources |-> SourceCalls(lg)]
        ELSE [ret |-> WriteError(werr), logger |-> lg, sources |-> SourceCalls(lg),
              written |-> <<[p |-> head, err |-> Nil], [p |-> extString, err |-> werr]>>]

Log_Validating(lg, deviceEventClassId, name, severity, extString, now, host, werr) ==
    LET herr == HostnameError(lg, host)
        line == LogLine(lg, now, host, deviceEventClassId, name, severity, extString)
    IN  IF validateSeverity(severity) # Nil
        THEN [ret |-> validateSeverity(severity), written |-> <<>>,
              logger |-> lg, sources |-> SourceCalls(lg)]
        ELSE IF herr # Nil
        THEN [ret |-> herr, written |-> <<>>, logger |-> lg, sources |-> SourceCalls(lg)]
        ELSE [ret |-> WriteError(werr), written |-> <<[p |-> line, err |-> werr]>>,
              logger |-> lg, sources |-> SourceCalls(lg)]

Log_EnvelopeOffAfterError(lg, deviceEventClassId, name, severity, extString, now, host, werr) ==
    LET herr == HostnameError(lg, host)
        line == LogLine(lg, now, host, deviceEventClassId, name, severity, extString)
    IN  IF herr # Nil
        THEN [ret |-> herr, written |-> <<>>,
              logger |-> [lg EXCEPT !.addSyslogHeader = FALSE],
              sources |-> SourceCalls(lg)]
        ELSE [ret |-> WriteError(werr), written |-> <<[p |-> line, err |-> werr]>>,
              logger |-> lg, sources |-> SourceCalls(lg)]

\* Logger.Log: what it returns, the Write calls it makes and the Logger it
\* leaves behind its pointer receiver, given the value of extensions.String()
\* and what the clock, the hostname source and the sink do during the call
Log(lg, deviceEventClassId, name, severity, extString, now, host, werr) ==
    LET herr == HostnameError(lg, host)
        line == LogLine(lg, now, host, deviceEventClassId, name, severity, extString)
    IN  IF herr # Nil
        THEN [ret |-> herr, written |-> <<>>, logger |-> lg, sources |-> SourceCalls(lg)]
        ELSE [ret |-> WriteError(werr), written |-> <<[p |-> line, err |-> werr]>>,
              logger |-> lg, sources |-> SourceCalls(lg)]

\* the severity wrappers of Logger
LogUnknown(lg, deviceEventClassId, name, extString, now, host, werr) ==
    Log(lg, deviceEventClassId, name, UnknownSeverity, extString, now, host, werr)

LogLow_AsMedium(lg, deviceEventClassId, name, extString, now, host, werr) ==
    Log(lg, deviceEventClassId, name, MediumSeverity, extString, now, host, werr)

LogLow(lg, deviceEventClassId, name, extString, now, host, werr) ==
    Log(lg, deviceEventClassId, name, LowSeverity, extString, now, host, werr)

LogMedium(lg, deviceEventClassId, name, extString, now, host, werr) ==
    Log(lg, deviceEventClassId, name, MediumSeverity, extString, now, host, werr)

LogHigh(lg, deviceEventClassId, name, extString, now, host, werr) ==
    Log(lg, deviceEventClassId, name, HighSeverity, extString, now, host, werr)

LogVeryHigh(lg, deviceEventClassId, name, extString, now, host, werr) ==
    Log(lg, deviceEventClassId, name, VeryHighSeverity, extString, now, host, werr)

---------------------------------------------------------------------------
(* Inputs *)

NoExtensions == <<>>

\* the device identities loggers are built with: those of TestLogger_Log and one
\* with an empty field and characters the header escapes
Devices ==
    { [vendor |-> <<"cyberdyne">>, product |-> <<"skynet">>,
       version |-> <<"0", ".", "9", ".", "0">>],
      [vendor |-> <<"cyberdyne">>, product |-> <<"skynet">>,
       version |-> <<"0", ".", "9", ".", "1">>],
      [vendor |-> <<>>, product |-> <<"|">>, version |-> <<"v", "\\">>] }

\* the values of the type byte
Bytes == 0..255

\* the options a caller can hold: OmitSyslogHeader() and what WithCefVersion
\* returned without an error
Options ==
    {OmitSyslogHeader} \cup {WithCefVersion(ver).fn : ver \in {v \in Bytes : WithCefVersion(v).err = Nil}}

RECURSIVE SeqsUpTo(_, _)
SeqsUpTo(set, n) ==
    IF n = 0 THEN {<<>>}
    ELSE LET shorter == SeqsUpTo(set, n - 1)
         IN  shorter \cup {Append(q, x) : q \in shorter, x \in set}

\* the events logged: those of TestLogger_Log, one with every field empty, and
\* ones with escaped characters, an invalid severity and extensions
Events ==
    { [deviceEventClassId |-> <<"1", "0", "0", "0">>, name |-> <<"testevent">>,
       severity |-> LowSeverity, extensions |-> NoExtensions],
      [deviceEventClassId |-> <<"1", "0", "0", "1">>, name |-> <<"testeventtofile">>,
       severity |-> LowSeverity, extensions |-> NoExtensions],
      [deviceEventClassId |-> <<>>, name |-> <<>>,
       severity |-> <<>>, extensions |-> NoExtensions],
      [deviceEventClassId |-> <<"a", "|", "b">>, name |-> <<"\\">>,
       severity |-> <<"1", "1">>,
       extensions |-> [Message |-> <<"x", "=", "y">>, DestinationPort |-> <<443>>]],
      [deviceEventClassId |-> <<"|">>, name |-> <<"scan", " ", "\\", "|">>,
       severity |-> VeryHighSeverity,
       extensions |-> [Reason |-> <<"r", "|", " ">>]],
      [deviceEventClassId |-> <<"9", "0", "0", "2">>, name |-> <<"probe">>,
       severity |-> <<"Sev", "|", "\\", "ere">>, extensions |-> NoExtensions],
      [deviceEventClassId |-> <<"9", "0", "0", "1">>, name |-> <<"scanner">>,
       severity |-> <<"low">>,
       extensions |-> [DeviceAction |-> <<"blocked">>,
                       CustomExtensions |->
                           (<<"extra">> :> <<"value">>) @@
                           (<<"k", " ">> :> <<"with", "\n", "newline">>)]] }

testTime == [month |-> 11, day |-> 9, hour |-> 11, min |-> 45, sec |-> 20]

\* what the clock may return
Clocks == {testTime, [month |-> 12, day |-> 25, hour |-> 7, min |-> 3, sec |-> 9]}

testHostname == [name |-> <<"testhost">>, err |-> Nil]

\* what the hostname source may return
Hostnames == {testHostname, [name |-> <<>>, err |-> NewError("hostname unavailable")]}

stubWriterError == NewError("underlying writer error")

\* what the sink's Write may return
WriteErrors == {Nil, stubWriterError}

\* the inputs of validateSeverity
SevAlphabet == {"0", "1", "5", "9", "-", "+", "x"}

SeverityInputs ==
    StrsUpTo(SevAlphabet, MaxSevLen)
    \cup {UnknownSeverity, LowSeverity, MediumSeverity, HighSeverity, VeryHighSeverity}
    \cup {<<"low">>, <<"Very">>, <<"something", " ", "else">>, <<"Low", " ">>}

\* testTime() of extensions_test.go, 2023-11-09T11:45:20Z, as an instant
testTimeInstant == [zero |-> FALSE, sec |-> 1699530320, ms |-> 0]

\* the Extensions values of TestExtensions_String
TestSets ==
    { NoExtensions,
      [Message |-> <<"value", "\n", "withnewline">>,
       CustomExtensions |-> (<<"extra">> :> <<"value">>)],
      [DestinationTranslatedPort |-> <<22>>,
       DestinationTranslatedAddress |-> <<192, 168, 0, 1>>],
      [FileSize |-> <<2048>>, FileType |-> <<"normal">>,
       FileModificationTime |-> testTimeInstant, FileCreateTime |-> testTimeInstant,
       FileId |-> <<"6452">>, FileName |-> <<"example.txt">>] }

\* values a caller may give single fields: set, explicitly zero, with spaces,
\* with escaped characters
ExtPool ==
    { [field |-> "Message", value |-> <<"a", " ", " ", "b">>],
      [field |-> "Message", value |-> <<" ", " ">>],
      [field |-> "DeviceAction", value |-> <<"blocked", " ">>],
      [field |-> "DeviceAction", value |-> <<>>],
      [field |-> "BaseEventCount", value |-> 1],
      [field |-> "BaseEventCount", value |-> 2],
      [field |-> "EndTime", value |-> ZeroTime],
      [field |-> "EndTime", value |-> [zero |-> FALSE, sec |-> 0, ms |-> 0]],
      [field |-> "EndTime", value |-> [zero |-> FALSE, sec |-> 1, ms |-> 5]],
      [field |-> "Type", value |-> 3],
      [field |-> "BytesIn", value |-> <<0>>],
      [field |-> "Reason", value |-> <<"bad", " ", "password">>],
      [field |-> "Outcome", value |-> <<"failure", "\t">>],
      [field |-> "DestinationTranslatedAddress", value |-> <<192, 168, 0, 1>>],
      [field |-> "DestinationTranslatedPort", value |-> <<22>>],
      [field |-> "DestinationAddress", value |-> <<0, 0, 0, 0>>],
      [field |-> "DestinationAddress", value |-> <<>>],
      [field |-> "DeviceAddress", value |-> <<0, 0, 0, 0, 0, 0, 0, 0, 0, 0, 255, 255, 0, 0, 0, 0>>],
      [field |-> "DeviceAddress", value |-> <<0, 0, 0, 0, 0, 0, 0, 0, 0, 0, 0, 0, 0, 0, 0, 1>>],
      [field |-> "DeviceAddress", value |-> <<32, 1, 13, 184, 0, 0, 0, 0, 0, 0, 0, 0, 0, 0, 0, 1>>],
      [field |-> "DeviceAddress", value |-> <<10, 0, 1>>],
      [field |-> "DestinationUserId", value |-> <<"0">>],
      [field |-> "DeviceDirection", value |-> <<1>>],
      [field |-> "DeviceMacAddress", value |-> <<0, 26, 255>>],
      [field |-> "DeviceTimeZone", value |-> <<<<"UTC", "=", "0">>>>],
      [field |-> "DeviceHostName", value |-> <<"fw", "\\">>],
      [field |-> "DeviceReceiptTime", value |-> testTimeInstant],
      [field |-> "DeviceReceiptTime", value |-> ZeroTime],
      [field |-> "FileCreateTime", value |-> testTimeInstant],
      [field |-> "FileModificationTime", value |-> [zero |-> FALSE, sec |-> 0, ms |-> 45]],
      [field |-> "FileName", value |-> <<"a", "=", "b", ".txt">>],
      [field |-> "OldFileCreateTime", value |-> [zero |-> FALSE, sec |-> 12, ms |-> 0]],
      [field |-> "OldFileModificationTime", value |-> [zero |-> FALSE, sec |-> 1699530320, ms |-> 999]],
      [field |-> "OldFileModificationTime", value |-> ZeroTime],
      [field |-> "SourceHostName", value |-> <<"host.example.com">>],
      [field |-> "SourceTranslatedPort", value |-> <<8080>>],
      [field |-> "DeviceTranslatedAddress", value |-> <<10, 0, 0, 1>>],
      [field |-> "RequestMethod", value |-> <<"GET">>],
      [field |-> "RequestUrl",
       value |-> [Scheme |-> <<"https">>, Host |-> <<"example.com">>,
                  Path |-> <<"/", "login">>, RawQuery |-> <<"user", "=", "root">>]],
      [field |-> "RequestUrl", value |-> ZeroURL],
      [field |-> "CustomExtensions", value |-> (<<"extra">> :> <<"value">>)],
      [field |-> "CustomExtensions",
       value |-> (<<"extra">> :> <<"value">>)
                 @@ (<<"escaped">> :> <<"value", "\n", "withnewline">>)],
      [field |-> "CustomExtensions", value |-> (<<"k">> :> <<"v", " ">>)],
      [field |-> "CustomExtensions",
       value |-> (<<" ", "k">> :> <<"v">>) @@ (<<"a", "=", "b">> :> <<"c", "\\">>)] }

\* the sets of at most n pool entries that name n different fields
RECURSIVE PoolSets(_)
PoolSets(n) ==
    IF n = 0 THEN {{}}
    ELSE LET smaller == PoolSets(n - 1)
         IN  smaller \cup UNION {{S \cup {p} :
                                     p \in {q \in ExtPool : \A r \in S : r.field # q.field}} :
                                  S \in smaller}

\* the Extensions value with the fields of S set
ExtensionsOf(S) ==
    [f \in {p.field : p \in S} |-> (CHOOSE p \in S : p.field = f).value]

\* the inputs of Extensions.String
ExtensionSets == TestSets \cup {ExtensionsOf(S) : S \in PoolSets(MaxFields)}

---------------------------------------------------------------------------
(* The logger: construction, then Log calls *)

NoCall == [op |-> "none"]

Init ==
    /\ \E d \in Devices, fns \in SeqsUpTo(Options, MaxOpts) :
          l = NewLogger(d.vendor, d.product, d.version, fns)
    /\ sink = <<>>
    /\ call = NoCall
    /\ arg = <<>>

\* the clock and the hostname source are consulted only for the envelope (the
\* specification SpecSources lets them vary without it)
ClocksOf(lg) == IF lg.addSyslogHeader THEN Clocks ELSE {testTime}

HostnamesOf(lg) == IF lg.addSyslogHeader THEN Hostnames ELSE {testHostname}

\* a call of l.Log with an event of the set events, while the sink has recorded
\* fewer than limit Write calls, the clock and the hostname source being ready
\* to return any of clocks and hostnames
LogFrom(events, limit, clocks, hostnames) ==
    /\ Len(sink) < limit
    /\ \E ev \in events :
         \E order \in KeyOrders(ev.extensions) :
            \E extString \in {ExtensionsString(ev.extensions, order)} :
                \E now \in clocks, host \in hostnames, werr \in WriteErrors :
                   LET r == Log(l, ev.deviceEventClassId, ev.name, ev.severity,
                                extString, now, host, werr)
                   IN  /\ sink' = sink \o r.written
                       /\ call' = [op |-> "Log",
                                   deviceEventClassId |-> ev.deviceEventClassId,
                                   name |-> ev.name,
                                   severity |-> ev.severity,
                                   extensions |-> ev.extensions,
                                   order |-> order,
                                   now |-> now,
                                   host |-> host,
                                   timeCalls |-> r.sources.getTime,
                                   hostCalls |-> r.sources.getHostname,
                                   sinkLen |-> Len(sink),
                                   written |-> r.written,
                                   ret |-> r.ret]
                       /\ l' = r.logger
    /\ UNCHANGED arg

LogWith(events, limit) == LogFrom(events, limit, ClocksOf(l), HostnamesOf(l))

LogCall == LogWith(Events, MaxWrites)

Next == LogCall

Spec == Init /\ [][Next]_vars

---------------------------------------------------------------------------
(* A sequence of Log calls on one logger *)

\* the two events of TestLogger_Log
SeqEvents ==
    {ev \in Events : Flat(ev.name) \in {"testevent", "testeventtofile"}}

InitSeq ==
    /\ \E fns \in SeqsUpTo(Options, MaxOpts) :
          l = NewLogger(<<"cyberdyne">>, <<"skynet">>, <<"0", ".", "9", ".", "0">>, fns)
    /\ sink = <<>>
    /\ call = NoCall
    /\ arg = <<>>

LogSeqCall == LogWith(SeqEvents, MaxLines)

NextSeq == LogSeqCall

SpecSeq == InitSeq /\ [][NextSeq]_vars

---------------------------------------------------------------------------
(* Log calls whatever the clock and the hostname source would return *)

LogAnySourcesCall == LogFrom(Events, MaxWrites, Clocks, Hostnames)

NextSources == LogAnySourcesCall

SpecSources == InitSeq /\ [][NextSources]_vars

---------------------------------------------------------------------------
(* The severity wrappers *)

\* the event of the wrapper tests and one with escaped characters and extensions
WrapperEvents ==
    { [deviceEventClassId |-> <<"tevt1">>,
       name |-> <<"test", " ", "event", " ", "1">>,
       extensions |-> NoExtensions],
      [deviceEventClassId |-> <<"a", "|", "b">>,
       name |-> <<"\\">>,
       extensions |-> [Message |-> <<"x", "=", "y">>, DestinationPort |-> <<443>>]] }

Wrappers == {"LogUnknown", "LogLow", "LogMedium", "LogHigh", "LogVeryHigh"}

\* a call of the wrapper named op on l
WrapperWith(op) ==
    /\ Len(sink) < MaxWrites
    /\ \E ev \in WrapperEvents :
         \E order \in KeyOrders(ev.extensions) :
            \E extString \in {ExtensionsString(ev.extensions, order)} :
                \E now \in ClocksOf(l), host \in HostnamesOf(l), werr \in WriteErrors :
                   LET id == ev.deviceEventClassId
                       r == CASE op = "LogUnknown" ->
                                    LogUnknown(l, id, ev.name, extString, now, host, werr)
                              [] op = "LogLow" ->
                                    LogLow(l, id, ev.name, extString, now, host, werr)
                              [] op = "LogMedium" ->
                                    LogMedium(l, id, ev.name, extString, now, host, werr)
                              [] op = "LogHigh" ->
                                    LogHigh(l, id, ev.name, extString, now, host, werr)
                              [] op = "LogVeryHigh" ->
                                    LogVeryHigh(l, id, ev.name, extString, now, host, werr)
                   IN  /\ sink' = sink \o r.written
                       /\ call' = [op |-> op,
                                   deviceEventClassId |-> id,
                                   name |-> ev.name,
                                   extensions |-> ev.extensions,
                                   order |-> order,
                                   now |-> now,
                                   host |-> host,
                                   werr |-> werr,
                                   sinkLen |-> Len(sink),
                                   written |-> r.written,
                                   ret |-> r.ret]
                       /\ l' = r.logger
    /\ UNCHANGED arg

LogUnknownCall == WrapperWith("LogUnknown")

LogLowCall == WrapperWith("LogLow")

LogMediumCall == WrapperWith("LogMedium")

LogHighCall == WrapperWith("LogHigh")

LogVeryHighCall == WrapperWith("LogVeryHigh")

NextWrappers ==
    \/ LogUnknownCall
    \/ LogLowCall
    \/ LogMediumCall
    \/ LogHighCall
    \/ LogVeryHighCall

SpecWrappers == Init /\ [][NextWrappers]_vars

---------------------------------------------------------------------------
(* Configuration: the options and the constructor *)

InitConfig ==
    /\ l = NewLogger(<<>>, <<>>, <<>>, <<>>)
    /\ sink = <<>>
    /\ call = NoCall
    /\ arg = <<>>

WithCefVersionCall ==
    /\ \E ver \in Bytes :
          call' = [op |-> "WithCefVersion", ver |-> ver,
                   fn |-> WithCefVersion(ver).fn, err |-> WithCefVersion(ver).err]
    /\ UNCHANGED <<l, sink, arg>>

\* NewLogger with a fresh sink; l becomes the logger it returns
NewLoggerCall ==
    /\ \E d \in Devices, fns \in SeqsUpTo(Options, MaxOpts) :
          /\ l' = NewLogger(d.vendor, d.product, d.version, fns)
          /\ call' = [op |-> "NewLogger", deviceVendor |-> d.vendor,
                      deviceProduct |-> d.product, deviceVersion |-> d.version,
                      fns |-> fns]
    /\ sink' = <<>>
    /\ UNCHANGED arg

NextConfig == WithCefVersionCall \/ NewLoggerCall

SpecConfig == InitConfig /\ [][NextConfig]_vars

---------------------------------------------------------------------------
(* The extension encoder as a function of the Extensions value *)

InitExt ==
    /\ arg \in ExtensionSets
    /\ l = NewLogger(<<>>, <<>>, <<>>, <<>>)
    /\ sink = <<>>
    /\ call = NoCall

\* e.String(), with the map visited in any order
StringCall ==
    /\ \E order \in KeyOrders(arg) :
          call' = [op |-> "String", e |-> arg, order |-> order,
                   ret |-> ExtensionsString(arg, order)]
    /\ UNCHANGED <<l, sink, arg>>

NextExt == StringCall

SpecExt == InitExt /\ [][NextExt]_vars

---------------------------------------------------------------------------
(* The escapers as functions of their input *)

InitEscape ==
    /\ arg \in StrsUpTo(Alphabet, MaxLen)
    /\ l = NewLogger(<<>>, <<>>, <<>>, <<>>)
    /\ sink = <<>>
    /\ call = NoCall

EscapeHeaderFieldCall ==
    /\ call' = [op |-> "escapeHeaderField", in |-> arg, ret |-> escapeHeaderField(arg)]
    /\ UNCHANGED <<l, sink, arg>>

EscapeExtensionFieldCall ==
    /\ call' = [op |-> "escapeExtensionField", in |-> arg, ret |-> escapeExtensionField(arg)]
    /\ UNCHANGED <<l, sink, arg>>

NextEscape == EscapeHeaderFieldCall \/ EscapeExtensionFieldCall

SpecEscape == InitEscape /\ [][NextEscape]_vars

---------------------------------------------------------------------------
(* The severity validator as a function of its input *)

InitSeverity ==
    /\ arg \in SeverityInputs
    /\ l = NewLogger(<<>>, <<>>, <<>>, <<>>)
    /\ sink = <<>>
    /\ call = NoCall

ValidateSeverityCall ==
    /\ call' = [op |-> "validateSeverity", in |-> arg, ret |-> validateSeverity(arg)]
    /\ UNCHANGED <<l, sink, arg>>

NextSeverity == ValidateSeverityCall

SpecSeverity == InitSeverity /\ [][NextSeverity]_vars

---------------------------------------------------------------------------
(* Reading a written line back *)

\* the number of characters of a Go string
RECURSIVE StrLen(_)
StrLen(s) == IF s = <<>> THEN 0 ELSE Len(Head(s)) + StrLen(Tail(s))

\* the tokens of s that an unescaped '|' terminates, and what follows the last
RECURSIVE SplitPipes(_, _, _, _)
SplitPipes(s, cur, esc, toks) ==
    IF s = <<>> THEN [toks |-> toks, rest |-> cur]
    ELSE IF esc THEN SplitPipes(Tail(s), Append(cur, Head(s)), FALSE, toks)
    ELSE IF Head(s) = "\\" THEN SplitPipes(Tail(s), Append(cur, Head(s)), TRUE, toks)
    ELSE IF Head(s) = "|" THEN SplitPipes(Tail(s), <<>>, FALSE, Append(toks, cur))
    ELSE SplitPipes(Tail(s), Append(cur, Head(s)), FALSE, toks)

\* a token with its escaping backslashes removed
RECURSIVE Unescape(_)
Unescape(s) ==
    IF s = <<>> THEN <<>>
    ELSE IF Head(s) = "\\" /\ Len(s) >= 2 THEN <<s[2]>> \o Unescape(Drop(s, 2))
    ELSE <<Head(s)>> \o Unescape(Tail(s))

\* the index of the first element of s that is c (0 when there is none)
FirstIndex(s, c) ==
    IF \E i \in 1..Len(s) : s[i] = c
    THEN CHOOSE i \in 1..Len(s) : s[i] = c /\ \A j \in 1..(i - 1) : s[j] # c
    ELSE 0

\* the last Log call handed a line to the sink
Logged == call.op = "Log" /\ call.written # <<>>

\* that line
Line == call.written[1].p

\* the envelope, the header and the extension string that call was to write
LineEnvelope == IF l.addSyslogHeader
                THEN SubSeq(Line, 1, FirstIndex(Line, "CEF:") - 1)
                ELSE <<>>

LineExtensions == ExtensionsString(call.extensions, call.order)

LineHeader == SubSeq(Line, Len(LineEnvelope) + 1, Len(Line) - Len(LineExtensions))

\* the timestamp of an envelope: it ends with MM:SS, five elements after the first ':'
LineStamp == SubSeq(Line, 1, FirstIndex(Line, ":") + 5)

HeaderFields ==
    <<l.DeviceVendor, l.DeviceProduct, l.DeviceVersion,
      call.deviceEventClassId, call.name, call.severity>>

---------------------------------------------------------------------------
(* Field Escaper: properties *)

HeaderSpecials == {"|", "\\"}

ExtensionSpecials == {"\n", "\r", "=", "\\"}

\* C1: escapeHeaderField makes one pass over the original characters: every
\* character of the input appears in the output, in order, a backslash or '|'
\* preceded by exactly one added backslash and every other character ('=', space
\* and newline included) alone; so "" gives "" and a string without backslash
\* or '|' gives itself.
C1_EscapeHeaderField ==
    call.op = "escapeHeaderField" =>
        LET s == call.in
            r == call.ret
            K(i) == Count(SubSeq(s, 1, i), HeaderSpecials)
        IN  /\ Len(r) = Len(s) + K(Len(s))
            /\ \A i \in 1..Len(s) :
                  /\ r[i + K(i)] = s[i]
                  /\ s[i] \in HeaderSpecials => r[i + K(i) - 1] = "\\"
            /\ s = <<>> => r = <<>>
            /\ K(Len(s)) = 0 => r = s

C1_Witness ==
    /\ call.op = "escapeHeaderField"
    /\ call.in = <<"\\", "|", "=">>
    /\ call.ret = <<"\\", "\\", "\\", "|", "=">>

\* C2: escapeExtensionField makes one pass over the original characters: newline
\* becomes backslash n, carriage return backslash r, '=' backslash '=', backslash
\* two backslashes, every other character ('|' and space included) is copied;
\* the output is never escaped again, so its length is the length of the input
\* plus the number of special characters.
C2_EscapeExtensionField ==
    call.op = "escapeExtensionField" =>
        LET s == call.in
            r == call.ret
            K(i) == Count(SubSeq(s, 1, i), ExtensionSpecials)
            Unit(c) == CASE c = "\n" -> "n" [] c = "\r" -> "r" [] OTHER -> c
        IN  /\ Len(r) = Len(s) + K(Len(s))
            /\ \A i \in 1..Len(s) :
                  /\ r[i + K(i)] = Unit(s[i])
                  /\ s[i] \in ExtensionSpecials => r[i + K(i) - 1] = "\\"

C2_Witness ==
    /\ call.op = "escapeExtensionField"
    /\ call.in = <<"=", "\r", "\\">>
    /\ call.ret = <<"\\", "=", "\\", "r", "\\", "\\">>

---------------------------------------------------------------------------
(* Severity Validator: properties *)

\* the decimal numerals of v: an optional sign, any number of leading zeros
Numerals(v) ==
    {sign \o [i \in 1..z |-> "0"] \o Itoa(v) :
        sign \in {<<>>, <<"+">>} \cup (IF v = 0 THEN {<<"-">>} ELSE {}),
        z \in 0..MaxSevLen}

\* C3: validateSeverity returns nil exactly for the five keywords (compared
\* case-sensitively) and for the base-10 numerals of 0..10; for every other string
\* ("11", "-5", "low", "", "something else", ...) it returns InvalidSeverityError.
C3_ValidateSeverity ==
    call.op = "validateSeverity" =>
        LET accepted ==
                \/ Flat(call.in) \in {"Unknown", "Low", "Medium", "High", "Very-High"}
                \/ \E v \in 0..10 : call.in \in Numerals(v)
        IN  /\ call.ret = IF accepted THEN Nil ELSE InvalidSeverityError
            /\ Flat(call.in) \in {"11", "-5", "low", "", "something else"}
                  => call.ret = InvalidSeverityError

C3_Witness ==
    /\ call.op = "validateSeverity"
    /\ Flat(call.in) = "10"
    /\ call.ret = Nil

---------------------------------------------------------------------------
(* Logger.Log: properties *)

\* C4: every line handed to the sink has, after the envelope, "CEF:" and the
\* version, then the six header fields in the order vendor, product, device
\* version, event class id, name, severity, each ended by an unescaped '|'; an
\* empty field keeps its slot, so the header has exactly seven unescaped '|'.
C4_HeaderSlots ==
    Logged =>
        LET sp == SplitPipes(LineHeader, <<>>, FALSE, <<>>)
        IN  /\ Len(sp.toks) = 7
            /\ sp.rest = <<>>
            /\ Flat(sp.toks[1]) = "CEF:" \o Flat(Itoa(l.cefVersion))
            /\ \A i \in 1..6 : Flat(Unescape(sp.toks[i + 1])) = Flat(HeaderFields[i])

C4_Witness ==
    /\ Logged
    /\ l.DeviceVendor = <<>>
    /\ l.DeviceProduct = <<"|">>
    /\ call.severity = <<>>

\* C5: the bytes written are the envelope, the header and Extensions.String(),
\* with nothing between the header's last '|' and the extension string and
\* nothing after it: the line never ends with a newline, and with no extensions
\* it ends with the '|' that follows the severity.
C5_LineIsHeaderThenExtensions ==
    Logged =>
        /\ Flat(Line) = Flat(LineEnvelope)
                        \o Flat(CefHeader(l, call.deviceEventClassId, call.name, call.severity))
                        \o Flat(LineExtensions)
        /\ Line[Len(Line)] # "\n"
        /\ DOMAIN call.extensions = {}
              => /\ Line[Len(Line)] = "|"
                 /\ LET sev == escapeHeaderField(call.severity)
                    IN  SubSeq(Line, Len(Line) - Len(sev), Len(Line) - 1) = sev

C5_Witness ==
    /\ Logged
    /\ l.addSyslogHeader
    /\ "Message" \in DOMAIN call.extensions
    /\ Flat(LineExtensions) = "msg=x\\=y dpt=443"

\* C6: with the envelope enabled and a hostname, the line is the month
\* abbreviation, one space, the day of the month, one space, HH:MM:SS, one space,
\* the hostname, one space and the CEF header; a single-digit day follows the
\* month after exactly one space (2023-11-09 11:45:20 and testhost give
\* "Nov 9 11:45:20 testhost ").
C6_Envelope ==
    (Logged /\ l.addSyslogHeader) =>
        LET t == call.now
            nd == IF t.day < 10 THEN 1 ELSE 2
            Num(from, n) == Atoi(SubSeq(Line, from, from + n - 1))
        IN  /\ Line[1] = Months[t.month]
            /\ Line[2] = " "
            /\ Line[3] \notin {" ", "0"}
            /\ Num(3, nd).err = Nil /\ Num(3, nd).v = t.day
            /\ Line[3 + nd] = " "
            /\ Num(4 + nd, 2).err = Nil /\ Num(4 + nd, 2).v = t.hour
            /\ Line[6 + nd] = ":"
            /\ Num(7 + nd, 2).err = Nil /\ Num(7 + nd, 2).v = t.min
            /\ Line[9 + nd] = ":"
            /\ Num(10 + nd, 2).err = Nil /\ Num(10 + nd, 2).v = t.sec
            /\ HasPrefix(Drop(Line, 11 + nd), <<" ">> \o call.host.name \o <<" ", "CEF:">>)
            /\ (t = testTime /\ call.host = testHostname)
                  => Flat(LineEnvelope) = "Nov 9 11:45:20 testhost "

C6_Witness ==
    /\ Logged
    /\ l.addSyslogHeader
    /\ call.now = testTime
    /\ Flat(Line) = "Nov 9 11:45:20 testhost CEF:1|cyberdyne|skynet|0.9.0|1000|testevent|Low|"

\* C7 as stated: the stamp has the same number of characters for every clock
\* value, a single-digit day being padded with a space to two columns.
C7_StampFixedWidth ==
    (Logged /\ l.addSyslogHeader) =>
        /\ \A t \in Clocks : StrLen(LineStamp) = StrLen(FormatStamp(t))
        /\ call.now.day < 10 => Line[3] = " "

\* C7: the stamp is not fixed-width: the day of the month is written without
\* padding, so the stamp (month abbreviation, space, day, space, HH:MM:SS) has
\* 14 characters for a single-digit day and 15 for a two-digit day.
C7_StampWidth ==
    (Logged /\ l.addSyslogHeader) =>
        /\ StrLen(LineStamp) = 3 + 1 + (IF call.now.day < 10 THEN 1 ELSE 2) + 1 + 8
        /\ Line[3] # " "

C7_Witness ==
    /\ Logged
    /\ l.addSyslogHeader
    /\ call.now.day < 10
    /\ Flat(LineStamp) = "Nov 9 11:45:20"

\* C8: with the envelope disabled the line begins with "CEF:" (no timestamp, no
\* hostname, no leading space) and the digit after it is the configured version,
\* 0 or 1.
C8_NoEnvelope ==
    (Logged /\ ~l.addSyslogHeader) =>
        /\ Line[1] = "CEF:"
        /\ l.cefVersion \in {0, 1}
        /\ Line[2] = Digits[l.cefVersion + 1]
        /\ Line[3] = "|"

C8_Witness ==
    /\ Logged
    /\ ~l.addSyslogHeader
    /\ Flat(Line) = "CEF:0|cyberdyne|skynet|0.9.1|1001|testeventtofile|Low|"

\* C9: when the envelope is enabled and the hostname source fails, Log returns
\* an error that wraps the hostname error and never calls the sink's Write.
C9_HostnameFailure ==
    (call.op = "Log" /\ l.addSyslogHeader /\ call.host.err # Nil) =>
        /\ call.ret # Nil
        /\ call.ret # call.host.err
        /\ ErrorsIs(call.ret, call.host.err)
        /\ call.written = <<>>
        /\ Len(sink) = call.sinkLen

C9_Witness ==
    /\ call.op = "Log"
    /\ l.addSyslogHeader
    /\ call.host.err # Nil
    /\ call.ret[1] = "failed to get hostname: hostname unavailable"

\* C10: when the sink's Write fails, Log returns an error that wraps the sink's
\* error and whose message is "failed to write log: " and the sink error's text;
\* Write was called exactly once in that call.
C10_WriteFailure ==
    (Logged /\ call.written[1].err # Nil) =>
        LET werr == call.written[1].err
        IN  /\ call.ret # Nil
            /\ ErrorsIs(call.ret, werr)
            /\ call.ret[1] = "failed to write log: " \o werr[1]
            /\ werr = stubWriterError
                  => call.ret[1] = "failed to write log: underlying writer error"
            /\ Len(call.written) = 1
            /\ Len(sink) = call.sinkLen + 1

C10_Witness ==
    /\ Logged
    /\ call.written[1].err = stubWriterError
    /\ call.ret = <<"failed to write log: underlying writer error", "underlying writer error">>

---------------------------------------------------------------------------
(* Sequences of Log calls *)

\* the line a Log call assembles from its arguments
CompleteLine(c) ==
    Flat(EnvelopeOf(l, c.now, c.host))
    \o Flat(CefHeader(l, c.deviceEventClassId, c.name, c.severity))
    \o Flat(ExtensionsString(c.extensions, c.order))

\* C11: in any sequence of Log calls on one logger, every call makes at most
\* one Write, whose argument is the complete line of that call; the call returns
\* nil only when it made that Write and the Write returned no error; and each
\* Write is appended after the Writes of the earlier calls, which stay as they
\* were, so the sink holds the lines in the order of the calls.
C11_OneWritePerCall ==
    [][ /\ call'.op = "Log"
        /\ Len(call'.written) <= 1
        /\ \A i \in DOMAIN call'.written :
              Flat(call'.written[i].p) = CompleteLine(call')
        /\ (call'.ret = Nil) =>
              (Len(call'.written) = 1 /\ call'.written[1].err = Nil)
        /\ sink' = sink \o call'.written ]_vars

\* a failed Write of one line is followed by a successful Write of another
C11_Witness ==
    /\ Len(sink) = 2
    /\ Flat(sink[1].p) # Flat(sink[2].p)
    /\ sink[1].err # Nil
    /\ call.op = "Log" /\ call.sinkLen = 1
    /\ call.written = <<sink[2]>>
    /\ call.ret = Nil

---------------------------------------------------------------------------
(* Configuration *)

\* C12: WithCefVersion(v) returns InvalidCefVersionErr and a nil option for
\* every byte v other than 0 and 1; for v in {0, 1} it returns no error and an
\* option that sets the version of the logger it is applied to to v; so a logger
\* NewLogger builds from options that were returned without an error always has
\* cefVersion in {0, 1}.
C12_WithCefVersion ==
    /\ (call.op = "WithCefVersion" /\ call.ver \notin {0, 1}) =>
          /\ call.err # Nil
          /\ ErrorsIs(call.err, InvalidCefVersionErr)
          /\ call.fn.opt = "nil"
    /\ (call.op = "WithCefVersion" /\ call.ver \in {0, 1}) =>
          /\ call.err = Nil
          /\ call.fn.opt # "nil"
          /\ ApplyOption(call.fn, l).cefVersion = call.ver
    /\ l.cefVersion \in {0, 1}

\* the call of TestWithCefVersion_error, made while a version 0 logger exists
C12_Witness ==
    /\ call.op = "WithCefVersion"
    /\ call.ver = 100
    /\ call.err = InvalidCefVersionErr
    /\ l.cefVersion = 0

\* the version the last version option of a list sets, 1 when there is none
LastVersion(fns) ==
    LET at == {i \in DOMAIN fns : fns[i].opt = "cefVersion"}
    IN  IF at = {} THEN 1 ELSE fns[CHOOSE i \in at : \A j \in at : j <= i].ver

\* C13: NewLogger returns a logger with the device fields as passed, with the
\* envelope enabled unless an OmitSyslogHeader option is in the list, and with
\* the version of the last WithCefVersion option of the list, version 1 when
\* there is none; OmitSyslogHeader changes only the envelope flag and a
\* WithCefVersion option changes only the version.
C13_NewLogger ==
    (call.op = "NewLogger") =>
        /\ l.DeviceVendor = call.deviceVendor
        /\ l.DeviceProduct = call.deviceProduct
        /\ l.DeviceVersion = call.deviceVersion
        /\ l.addSyslogHeader = (\A i \in DOMAIN call.fns : call.fns[i] # OmitSyslogHeader)
        /\ l.cefVersion = LastVersion(call.fns)
        /\ \A fn \in Options :
              LET m == ApplyOption(fn, l)
              IN  /\ m.DeviceVendor = l.DeviceVendor
                  /\ m.DeviceProduct = l.DeviceProduct
                  /\ m.DeviceVersion = l.DeviceVersion
                  /\ (fn = OmitSyslogHeader) =>
                        (~m.addSyslogHeader /\ m.cefVersion = l.cefVersion)
                  /\ (fn # OmitSyslogHeader) =>
                        (m.cefVersion = fn.ver /\ m.addSyslogHeader = l.addSyslogHeader)

\* two version options in one list: the later one decides
C13_Witness ==
    /\ call.op = "NewLogger"
    /\ call.fns = <<WithCefVersion(1).fn, WithCefVersion(0).fn>>
    /\ l.cefVersion = 0
    /\ l.addSyslogHeader
    /\ l.DeviceVendor = <<"cyberdyne">>

---------------------------------------------------------------------------
(* The severity wrappers *)

\* the keyword each wrapper stands for
KeywordOf(op) ==
    CASE op = "LogUnknown" -> <<"Unknown">>
      [] op = "LogLow" -> <<"Low">>
      [] op = "LogMedium" -> <<"Medium">>
      [] op = "LogHigh" -> <<"High">>
      [] op = "LogVeryHigh" -> <<"Very-High">>

\* C14: LogUnknown, LogLow, LogMedium, LogHigh and LogVeryHigh write the bytes
\* and return the result that Log gives for the same event id, name and
\* extensions with the severity "Unknown", "Low", "Medium", "High" and
\* "Very-High" respectively; the severity slot of the line they write holds
\* that keyword.
C14_Wrappers ==
    (call.op \in Wrappers) =>
        LET r == Log(l, call.deviceEventClassId, call.name, KeywordOf(call.op),
                     ExtensionsString(call.extensions, call.order),
                     call.now, call.host, call.werr)
        IN  /\ call.ret = r.ret
            /\ Len(call.written) = Len(r.written)
            /\ \A i \in DOMAIN call.written :
                  /\ Flat(call.written[i].p) = Flat(r.written[i].p)
                  /\ call.written[i].err = r.written[i].err
            /\ call.written # <<>> =>
                  LET sp == SplitPipes(LineHeader, <<>>, FALSE, <<>>)
                  IN  Len(sp.toks) = 7 /\ Flat(sp.toks[7]) = Flat(KeywordOf(call.op))

\* LogLow writes the event of its test
C14_Witness ==
    /\ call.op = "LogLow"
    /\ call.deviceEventClassId = <<"tevt1">>
    /\ call.ret = Nil
    /\ Len(sink) = 1
    /\ l.addSyslogHeader

---------------------------------------------------------------------------
(* Extension Encoder: properties *)

\* the last String call
Encoded == call.op = "String"

\* the fields of a table, as the struct declares them
Entries(table) == {[field |-> table[i].field, kind |-> table[i].kind] : i \in DOMAIN table}

\* the known fields the struct Extensions declares
DeclaredFields ==
    Entries(StringFields) \cup Entries(DestinationFields) \cup Entries(DeviceFields)
    \cup Entries(FileFields) \cup Entries(HttpFields) \cup Entries(SourceFields)
    \cup {DeviceTranslatedAddress}

\* the known fields of e that are present
PresentFields(e) == {d \in DeclaredFields : Present(d, FieldOf(e, d))}

\* the number of backslashes that end at position i of s
RECURSIVE BackslashRun(_, _)
BackslashRun(s, i) ==
    IF i >= 1 /\ s[i] = "\\" THEN 1 + BackslashRun(s, i - 1) ELSE 0

\* the positions of the '=' of s that no backslash escapes: one for each token
TokenMarks(s) == {i \in DOMAIN s : s[i] = "=" /\ BackslashRun(s, i - 1) % 2 = 0}

\* C15: String emits one key=value token for every known field of Extensions
\* that is present and none for a field that is absent, the source fields,
\* DeviceTranslatedAddress and the request string fields included: the output
\* has as many tokens as the value has present known fields and custom entries.
C15_EveryPresentFieldEmitted ==
    Encoded =>
        Cardinality(TokenMarks(call.ret))
            = Cardinality(PresentFields(call.e)) + Cardinality(DOMAIN CustomOf(call.e))

\* the groups of known fields String writes: general, destination, device, file
WrittenGroups == <<StringFields, DestinationFields, DeviceFields, FileFields>>

KnownKeys == UNION {{WrittenGroups[g][i].key : i \in DOMAIN WrittenGroups[g]} : g \in 1..4}

\* the group of a known key and its place in the group
GroupOf(key) ==
    CHOOSE g \in 1..4 : \E i \in DOMAIN WrittenGroups[g] : WrittenGroups[g][i].key = key

PlaceOf(key) ==
    CHOOSE i \in DOMAIN WrittenGroups[GroupOf(key)] : WrittenGroups[GroupOf(key)][i].key = key

\* the positions of s where the token of a known field starts
KnownTokens(s) ==
    {i \in DOMAIN s : /\ s[i] \in KnownKeys
                      /\ i < Len(s) /\ s[i + 1] = "="
                      /\ (i = 1 \/ s[i - 1] = " ")}

\* the fields of TestExtensions_String/file_data_1 and /ip_port_value
FileData1 ==
    [FileSize |-> <<2048>>, FileType |-> <<"normal">>,
     FileModificationTime |-> testTimeInstant, FileCreateTime |-> testTimeInstant,
     FileId |-> <<"6452">>, FileName |-> <<"example.txt">>]

IpPortValue ==
    [DestinationTranslatedPort |-> <<22>>,
     DestinationTranslatedAddress |-> <<192, 168, 0, 1>>]

CustomToken(k, v) == escapeExtensionField(k) \o <<"=">> \o escapeExtensionField(v)

\* the positions of s where tok stands as a whole token
Occurrences(s, tok) ==
    {p \in 1..(Len(s) - Len(tok) + 1) :
        /\ SubSeq(s, p, p + Len(tok) - 1) = tok
        /\ (p = 1 \/ s[p - 1] = " ")
        /\ (p + Len(tok) - 1 = Len(s) \/ s[p + Len(tok)] = " ")}

\* C17: for every entry (k, v) of the custom map the output contains the token
\* escape(k) + "=" + escape(v) exactly once, and every custom token comes after
\* every known-field token, in whatever order the custom tokens are among
\* themselves.
C17_CustomTokens ==
    Encoded =>
        \A k \in DOMAIN CustomOf(call.e) :
            LET occ == Occurrences(call.ret, CustomToken(k, CustomOf(call.e)[k]))
            IN  /\ Cardinality(occ) = 1
                /\ \A p \in occ : \A i \in KnownTokens(call.ret) : i < p

\* two spaces side by side
DoubleSpace(s) == \E i \in 1..(Len(s) - 1) : s[i] = " " /\ s[i + 1] = " "

TextsOf(e) ==
    {FieldOf(e, d) : d \in {x \in DeclaredFields : x.kind = "string"}}
    \cup DOMAIN CustomOf(e)
    \cup {CustomOf(e)[k] : k \in DOMAIN CustomOf(e)}

TimeFields ==
    {"EndTime", "DeviceReceiptTime", "FileCreateTime", "FileModificationTime",
     "OldFileCreateTime", "OldFileModificationTime"}

\* the key the encoder gives a written field
KeyOf(field) ==
    LET g == CHOOSE h \in 1..4 : \E i \in DOMAIN WrittenGroups[h] : WrittenGroups[h][i].field = field
        i == CHOOSE j \in DOMAIN WrittenGroups[g] : WrittenGroups[g][j].field = field
    IN  WrittenGroups[g][i].key

\* the value of the token that starts at position i of s: what stands between
\* its '=' and the next space
RECURSIVE UpToSpace(_)
UpToSpace(s) ==
    IF s = <<>> \/ Head(s) = " " THEN <<>> ELSE <<Head(s)>> \o UpToSpace(Tail(s))

ValueAt(s, i) == UpToSpace(Drop(s, i + 1))

\* digits is the base 10 numeral of the milliseconds of t since the epoch
IsUnixMilli(digits, t) ==
    /\ digits # <<>>
    /\ \A i \in DOMAIN digits : IsDigit(digits[i])
    /\ \/ Len(digits) = 1
       \/ digits[1] # "0"
    /\ IF t.sec = 0
       THEN Atoi(digits).v = t.ms
       ELSE /\ Len(digits) >= 4
            /\ Atoi(SubSeq(digits, 1, Len(digits) - 3)).v = t.sec
            /\ Atoi(SubSeq(digits, Len(digits) - 2, Len(digits))).v = t.ms

\* C20: each timestamp field (EndTime, DeviceReceiptTime, FileCreateTime,
\* FileModificationTime, OldFileCreateTime, OldFileModificationTime) has no
\* token exactly when it is the zero time, and otherwise one token whose value
\* is its Unix time in milliseconds in base 10 (2023-11-09T11:45:20Z gives
\* 1699530320000); a timestamp that was not set never gives a token with 0.
C20_Timestamps ==
    Encoded =>
        \A f \in TimeFields :
            LET t == FieldOf(call.e, [field |-> f, kind |-> "time"])
                at == {i \in KnownTokens(call.ret) : call.ret[i] = KeyOf(f)}
            IN  /\ t.zero <=> (at = {})
                /\ Cardinality(at) <= 1
                /\ \A i \in at :
                      /\ IsUnixMilli(ValueAt(call.ret, i), t)
                      /\ (t = testTimeInstant) =>
                            Flat(ValueAt(call.ret, i)) = "1699530320000"

\* the end time one second and five milliseconds after the epoch, and a receipt
\* time left at its zero value
C20_Witness ==
    /\ Encoded
    /\ DOMAIN call.e = {"EndTime", "DeviceReceiptTime"}
    /\ call.e.DeviceReceiptTime.zero
    /\ Flat(call.ret) = "end=1005"

\* the IP-address fields String writes
AddressFields == {"DestinationTranslatedAddress", "DestinationAddress", "DeviceAddress"}

\* the pieces of s between the elements that are sep
RECURSIVE SplitOn(_, _, _)
SplitOn(s, sep, cur) ==
    IF s = <<>> THEN <<cur>>
    ELSE IF Head(s) = sep THEN <<cur>> \o SplitOn(Tail(s), sep, <<>>)
    ELSE SplitOn(Tail(s), sep, Append(cur, Head(s)))

\* text is the dotted decimal form of the four bytes b
IsDotted(text, b) ==
    LET parts == SplitOn(text, ".", <<>>)
    IN  /\ Len(parts) = 4
        /\ \A i \in 1..4 :
              /\ Atoi(parts[i]).err = Nil
              /\ Atoi(parts[i]).v = b[i]
              /\ (Len(parts[i]) = 1 \/ parts[i][1] # "0")

\* C21: each IP-address field (DestinationTranslatedAddress, DestinationAddress,
\* DeviceAddress) has no token exactly when the address is nil or has length
\* zero, and otherwise one token whose value is the text of the address; the
\* address 0.0.0.0, in its 4-byte and in its 16-byte form, is a set address and
\* is written as "0.0.0.0".
C21_Addresses ==
    Encoded =>
        \A f \in AddressFields :
            LET ip == FieldOf(call.e, [field |-> f, kind |-> "ip"])
                at == {i \in KnownTokens(call.ret) : call.ret[i] = KeyOf(f)}
            IN  /\ (Len(ip) = 0) <=> (at = {})
                /\ Cardinality(at) <= 1
                /\ \A i \in at :
                      LET text == ValueAt(call.ret, i)
                      IN  /\ (Len(ip) = 4) => IsDotted(text, ip)
                          /\ (\A j \in DOMAIN ip : ip[j] = 0) => Flat(text) = "0.0.0.0"
                          /\ IsV4InV6(ip) => IsDotted(text, SubSeq(ip, 13, 16))
                          /\ (ip = <<0, 0, 0, 0, 0, 0, 0, 0, 0, 0, 0, 0, 0, 0, 0, 1>>)
                                => Flat(text) = "::1"
                          /\ (ip = <<32, 1, 13, 184, 0, 0, 0, 0, 0, 0, 0, 0, 0, 0, 0, 1>>)
                                => Flat(text) = "2001:db8::1"

\* the destination address 0.0.0.0
C21_Witness ==
    /\ Encoded
    /\ DOMAIN call.e = {"DestinationAddress"}
    /\ call.e.DestinationAddress = <<0, 0, 0, 0>>
    /\ Flat(call.ret) = "dst=0.0.0.0"

\* the positions of s where a token with the key "request" starts
RequestTokens(s) ==
    {i \in DOMAIN s : /\ s[i] = "request"
                      /\ i < Len(s) /\ s[i + 1] = "="
                      /\ (i = 1 \/ s[i - 1] = " ")}

\* C22: when RequestUrl differs from the empty URL the output contains the token
\* "request=" followed by the extension-escaped text of the URL, and when it is
\* the empty URL the output has no request token.
C22_RequestToken ==
    Encoded =>
        LET u == FieldOf(call.e, HttpFields[1])
        IN  /\ (u # ZeroURL) =>
                  Occurrences(call.ret,
                              <<"request", "=">> \o escapeExtensionField(URLString(u))) # {}
            /\ (u = ZeroURL) => RequestTokens(call.ret) = {}

---------------------------------------------------------------------------
(* Logger.Log: severity, frame and collaborators *)

\* C23: Log never validates the severity: for every severity string, also one
\* validateSeverity rejects (a number out of range, a misspelled keyword, the
\* empty string), a call whose hostname source works hands one line to the sink
\* whose severity slot is the header-escaped severity text, and returns nil
\* when the sink accepts the line.
C23_SeverityNotValidated ==
    (call.op = "Log" /\ (l.addSyslogHeader => call.host.err = Nil)) =>
        /\ Len(call.written) = 1
        /\ (call.written[1].err = Nil) => (call.ret = Nil)
        /\ LET sp == SplitPipes(LineHeader, <<>>, FALSE, <<>>)
           IN  /\ Len(sp.toks) = 7
               /\ Flat(sp.toks[7]) = Flat(escapeHeaderField(call.severity))
               /\ Flat(Unescape(sp.toks[7])) = Flat(call.severity)

\* the severity 11, which validateSeverity rejects, is logged without an error
C23_Witness ==
    /\ Logged
    /\ call.severity = <<"1", "1">>
    /\ validateSeverity(call.severity) = InvalidSeverityError
    /\ call.ret = Nil
    /\ Flat(SplitPipes(LineHeader, <<>>, FALSE, <<>>).toks[7]) = "11"

\* what a line of the sink says about the logger that wrote it
CarriesIdentity(p, lg) ==
    LET at == FirstIndex(p, "CEF:")
        sp == SplitPipes(SubSeq(p, at, Len(p)), <<>>, FALSE, <<>>)
    IN  /\ at >= 1
        /\ (at = 1) <=> ~lg.addSyslogHeader
        /\ Len(sp.toks) >= 4
        /\ Flat(sp.toks[1]) = "CEF:" \o Flat(Itoa(lg.cefVersion))
        /\ Flat(Unescape(sp.toks[2])) = Flat(lg.DeviceVendor)
        /\ Flat(Unescape(sp.toks[3])) = Flat(lg.DeviceProduct)
        /\ Flat(Unescape(sp.toks[4])) = Flat(lg.DeviceVersion)

\* C24: Log never modifies the Logger: across every call of a sequence, the ones
\* that fail included, the envelope flag, the CEF version, the references to the
\* sink, the clock and the hostname source and the device vendor, product and
\* version stay what NewLogger left, so every line the sink holds carries the
\* same version and device identity.
C24_LoggerUnmodified ==
    [][ /\ l' = l
        /\ DOMAIN l' = {"addSyslogHeader", "cefVersion", "out", "getTime", "getHostname",
                        "DeviceVendor", "DeviceProduct", "DeviceVersion"}
        /\ \A i \in DOMAIN sink' : CarriesIdentity(sink'[i].p, l) ]_vars

\* a version 0 logger without envelope after a failed and a successful Write
C24_Witness ==
    /\ Len(sink) = 2
    /\ sink[1].err # Nil
    /\ call.op = "Log" /\ call.ret = Nil
    /\ l = NewLogger(<<"cyberdyne">>, <<"skynet">>, <<"0", ".", "9", ".", "0">>,
                     <<WithCefVersion(0).fn, OmitSyslogHeader>>)
    /\ \A i \in 1..2 : HasPrefix(sink[i].p, <<"CEF:", "0", "|", "cyberdyne", "|", "skynet", "|">>)

\* the fields of e that String writes a token for
EmittedFields(e) ==
    {d \in PresentFields(e) : \E g \in 1..4 : d \in Entries(WrittenGroups[g])}

\* C25: the output has as many unescaped '=' (an '=' that no odd run of
\* backslashes precedes) as String emitted tokens: no string value, time-zone
\* name, custom key or custom value adds an unescaped '=' of its own.
C25_NoForgedPair ==
    Encoded =>
        Cardinality(TokenMarks(call.ret))
            = Cardinality(EmittedFields(call.e)) + Cardinality(DOMAIN CustomOf(call.e))

\* a time-zone name with '=' next to a custom key with '=' and a custom value
\* that ends with a backslash
C25_Witness ==
    /\ Encoded
    /\ DOMAIN call.e = {"DeviceTimeZone", "CustomExtensions"}
    /\ call.order = << <<"a", "=", "b">>, <<" ", "k">> >>
    /\ Flat(call.ret) = "dtz=UTC\\=0 a\\=b=c\\\\  k=v"

\* the tokens key + "=" + text of the fields of a table that e has present
RECURSIVE TokensFrom(_, _, _)
TokensFrom(e, table, i) ==
    IF i > Len(table) THEN <<>>
    ELSE (IF Present(table[i], FieldOf(e, table[i]))
          THEN << <<table[i].key, "=">> \o ValueText(table[i], FieldOf(e, table[i])) >>
          ELSE <<>>)
         \o TokensFrom(e, table, i + 1)

\* the tokens of the emitted fields and custom entries of e, in output order
TokensOf(e, order) ==
    TokensFrom(e, StringFields, 1) \o TokensFrom(e, DestinationFields, 1)
    \o TokensFrom(e, DeviceFields, 1) \o TokensFrom(e, FileFields, 1)
    \o [i \in 1..Len(order) |-> CustomToken(order[i], CustomOf(e)[order[i]])]

\* C26: String drops no character of an emitted key or value: its result is the
\* tokens key + "=" + escape(value) of the emitted fields joined by single
\* spaces, also when the last emitted value ends with white space, when the
\* only string value consists of spaces, or when the first emitted custom key
\* starts with white space.
C26_NothingDropped ==
    Encoded =>
        Flat(call.ret) = Flat(Join(TokensOf(call.e, call.order), <<" ">>))

\* C27: when the envelope is disabled Log consults neither the clock nor the
\* hostname source: whatever they would return, a failing hostname source
\* included, the call invokes the sink exactly once with the header and the
\* extensions alone, and fails only when that Write fails.
C27_NoSourcesWithoutEnvelope ==
    (call.op = "Log" /\ ~l.addSyslogHeader) =>
        /\ call.timeCalls = 0
        /\ call.hostCalls = 0
        /\ Len(call.written) = 1
        /\ Len(sink) = call.sinkLen + 1
        /\ (call.ret = Nil) <=> (call.written[1].err = Nil)
        /\ (call.ret # Nil) => ErrorsIs(call.ret, call.written[1].err)
        /\ Flat(call.written[1].p)
              = Flat(CefHeader(l, call.deviceEventClassId, call.name, call.severity))
                \o Flat(ExtensionsString(call.extensions, call.order))

\* the hostname source would have failed, and the call succeeds
C27_Witness ==
    /\ call.op = "Log"
    /\ ~l.addSyslogHeader
    /\ call.host.err # Nil
    /\ call.ret = Nil
    /\ Len(sink) = 1
    /\ sink[1].p[1] = "CEF:"

-----------------------------------------------------------------------------
(* Log calls running concurrently on one shared Logger.  Every call is a      *)
(* goroutine with its own frame (arguments, locals, position in Log); arg     *)
(* holds the frames of the calls started so far, a step of Next is one        *)
(* statement of one call.                                                     *)

\* the number of concurrent calls
MaxCalls == 2

\* a builder kept in the Logger: every call writes into the same one
BuilderOf_Shared(i) == 1

\* b := strings.Builder{} is a local of the call: the builder of call i is the
\* one in its own frame
BuilderOf(i) == i

\* the frame of a call at entry of Log; now, hostname and the iteration order of
\* the custom map are unset until their statement runs
Frame(ev) ==
    [pc |-> "builder", ev |-> ev, b |-> <<>>, now |-> testTime,
     host |-> testHostname, order |-> <<>>, ret |-> Nil]

\* frame i becomes f and the builder of call i holds b
Update(i, f, b) ==
    [k \in DOMAIN arg |->
        LET g == IF k = i THEN f ELSE arg[k]
        IN  IF k = BuilderOf(i) THEN [g EXCEPT !.b = b] ELSE g]

InitConcurrent == InitSeq

\* go l.Log(deviceEventClassId, name, severity, extensions)
GoLog ==
    /\ Len(arg) < MaxCalls
    /\ \E ev \in SeqEvents : arg' = Append(arg, Frame(ev))
    /\ UNCHANGED <<l, sink, call>>

\* b := strings.Builder{}
BuilderStep(i) ==
    /\ arg[i].pc = "builder"
    /\ arg' = Update(i, [arg[i] EXCEPT !.pc = "envelope"], <<>>)
    /\ UNCHANGED <<l, sink, call>>

\* if l.addSyslogHeader { b.WriteString(l.getTime().Format(`Jan 2 15:04:05`))
TimeStep(i) ==
    /\ arg[i].pc = "envelope"
    /\ IF l.addSyslogHeader
       THEN \E now \in Clocks :
               arg' = Update(i, [arg[i] EXCEPT !.pc = "hostname", !.now = now],
                             arg[BuilderOf(i)].b \o FormatStamp(now))
       ELSE arg' = Update(i, [arg[i] EXCEPT !.pc = "header"], arg[BuilderOf(i)].b)
    /\ UNCHANGED <<l, sink, call>>

\* hostname, err := l.getHostname(); if err != nil { return ... };
\* b.WriteString(" " + hostname + " ")
HostnameStep(i) ==
    /\ arg[i].pc = "hostname"
    /\ \E host \in Hostnames :
          IF HostnameError(l, host) # Nil
          THEN arg' = Update(i, [arg[i] EXCEPT !.pc = "done", !.host = host,
                                               !.ret = HostnameError(l, host)],
                             arg[BuilderOf(i)].b)
          ELSE arg' = Update(i, [arg[i] EXCEPT !.pc = "header", !.host = host],
                             arg[BuilderOf(i)].b \o <<" ">> \o host.name \o <<" ">>)
    /\ UNCHANGED <<l, sink, call>>

\* b.WriteString(fmt.Sprintf("CEF:%d|%s|%s|%s|%s|%s|%s|", ...))
HeaderStep(i) ==
    /\ arg[i].pc = "header"
    /\ arg' = Update(i, [arg[i] EXCEPT !.pc = "extensions"],
                     arg[BuilderOf(i)].b
                     \o CefHeader(l, arg[i].ev.deviceEventClassId, arg[i].ev.name,
                                  arg[i].ev.severity))
    /\ UNCHANGED <<l, sink, call>>

\* b.WriteString(extensions.String())
ExtensionsStep(i) ==
    /\ arg[i].pc = "extensions"
    /\ \E order \in KeyOrders(arg[i].ev.extensions) :
          arg' = Update(i, [arg[i] EXCEPT !.pc = "write", !.order = order],
                        arg[BuilderOf(i)].b
                        \o ExtensionsString(arg[i].ev.extensions, order))
    /\ UNCHANGED <<l, sink, call>>

\* _, err := l.out.Write([]byte(b.String())); return the wrapped error or nil
WriteStep(i) ==
    /\ arg[i].pc = "write"
    /\ \E werr \in WriteErrors :
          /\ sink' = Append(sink, [p |-> arg[BuilderOf(i)].b, err |-> werr])
          /\ arg' = Update(i, [arg[i] EXCEPT !.pc = "done", !.ret = WriteError(werr)],
                           arg[BuilderOf(i)].b)
    /\ UNCHANGED <<l, call>>

NextConcurrent ==
    \/ GoLog
    \/ \E i \in DOMAIN arg : BuilderStep(i)
    \/ \E i \in DOMAIN arg : TimeStep(i)
    \/ \E i \in DOMAIN arg : HostnameStep(i)
    \/ \E i \in DOMAIN arg : HeaderStep(i)
    \/ \E i \in DOMAIN arg : ExtensionsStep(i)
    \/ \E i \in DOMAIN arg : WriteStep(i)

SpecConcurrent == InitConcurrent /\ [][NextConcurrent]_vars

\* the line of a call run alone, from the values its frame holds
LineOf(f) ==
    LogLine(l, f.now, f.host, f.ev.deviceEventClassId, f.ev.name, f.ev.severity,
            ExtensionsString(f.ev.extensions, f.order))

\* the call returned at the hostname step
HostnameFailed(f) == f.pc = "done" /\ HostnameError(l, f.host) # Nil

\* the call has made its Write
Wrote(f) == f.pc = "done" /\ ~HostnameFailed(f)

\* what the builder of a call holds at each position when no other call
\* touches it
Built(f) ==
    CASE f.pc \in {"builder", "envelope"} -> <<>>
      [] f.pc = "hostname" -> FormatStamp(f.now)
      [] f.pc = "header" -> EnvelopeOf(l, f.now, f.host)
      [] f.pc = "extensions" ->
            EnvelopeOf(l, f.now, f.host)
            \o CefHeader(l, f.ev.deviceEventClassId, f.ev.name, f.ev.severity)
      [] f.pc = "write" -> LineOf(f)
      [] f.pc = "done" -> IF HostnameFailed(f) THEN FormatStamp(f.now) ELSE LineOf(f)

\* the one-to-one assignments of Writes to calls
Assignments ==
    {m \in [DOMAIN sink -> DOMAIN arg] :
        \A j, k \in DOMAIN sink : m[j] = m[k] => j = k}

C28_Inv ==
    \E lines \in {[i \in DOMAIN arg |->
                     IF arg[i].pc \in {"write", "done"} THEN Flat(LineOf(arg[i])) ELSE ""]} :
       /\ \A i \in DOMAIN arg :
             Flat(arg[i].b) = IF arg[i].pc = "write" \/ Wrote(arg[i])
                              THEN lines[i] ELSE Flat(Built(arg[i]))
       /\ Len(sink) = Cardinality({i \in DOMAIN arg : Wrote(arg[i])})
       /\ \E m \in Assignments :
             \A k \in DOMAIN sink :
                /\ Wrote(arg[m[k]])
                /\ Flat(sink[k].p) = lines[m[k]]
                /\ arg[m[k]].ret = WriteError(sink[k].err)

C28_Step ==
    /\ l' = l
    /\ Cardinality({k \in DOMAIN arg : arg'[k] # arg[k]}) <= 1
    /\ \A k \in DOMAIN sink : sink'[k] = sink[k]
    /\ Len(sink') <= Len(sink) + 1

\* C28: Log calls running concurrently on one Logger each build their line in a
\* buffer of their own: in every interleaving each Write carries the complete
\* line of exactly one call, there are as many Writes as calls that got past the
\* hostname step and reached their Write, and a step of one call changes no
\* other call's locals and not the Logger, only the sink.
C28_OwnLineBuffer == [](C28_Inv) /\ [][C28_Step]_vars

\* a later call overtakes an earlier one: its line is in the sink while the
\* earlier call still holds its own, different, complete line unwritten
C28_Witness ==
    /\ Len(arg) = 2
    /\ arg[1].pc = "write"
    /\ arg[2].pc = "done"
    /\ Len(sink) = 1
    /\ Flat(sink[1].p) = Flat(LineOf(arg[2]))
    /\ Flat(sink[1].p) # Flat(arg[1].b)
    /\ Len(arg[1].b) > 0

=============================================================================
